---------------------------- MODULE Spec2Model ----------------------------
(***************************************************************************)
(* State-machine model of contracts/PrivacyBadgerExtension.sol: the        *)
(* encrypted rule ledger, the sync cursor, and the asynchronous            *)
(* matching / decryption request-callback cycle; and of the rule index the *)
(* web frontend (frontend/web/src/App.tsx) keeps in a key-value store.     *)
(*                                                                         *)
(* Every public function of the contract is one atomic action (an EVM      *)
(* transaction).  A reverting call leaves the contract storage untouched   *)
(* and is recorded only in the observation variable `last`.                *)
(***************************************************************************)
EXTENDS Integers, Sequences, FiniteSets, TLC

(***************************************************************************)
(* Bounds of the model.                                                    *)
(***************************************************************************)
MaxRules == 3      \* addFilteringRule is cut off after this many rules
MaxTime  == 4      \* block.timestamp ranges over 1..MaxTime
MaxReq   == 3      \* requests handed to the FHE backend (both kinds)
ProtoRules == 1    \* rules added while the protocol slice is explored
PayloadRules == 2  \* rules added while the payload slice is explored
MaxWebOps == 3     \* handlers the users of the frontend start (clicks)
MaxClock == 2      \* Date.now() of the frontend ranges over 1..MaxClock

(***************************************************************************)
(* Program constant.                                                       *)
(***************************************************************************)
MIN_MATCH_SCORE == 80

(***************************************************************************)
(* Callers.  Every function of the contract is public and onlyMaintainer   *)
(* checks nothing, so any address may call any function; "relayer" is the  *)
(* address the computation backend calls back from.                        *)
(***************************************************************************)
Addr == {"alice", "relayer"}

(***************************************************************************)
(* Ciphertext handles.  A handle is opaque to the contract; the model      *)
(* keeps the plaintext next to the type tag so that decryption by the      *)
(* backend can be computed.  Booleans are encoded 0 / 1 as in the ABI.     *)
(***************************************************************************)
Handle(ty, v) == [ty |-> ty, v |-> v]
ZeroHandle == Handle("zero", 0)     \* bytes32(0): an unset storage slot
asEuint32(n) == Handle("euint32", n)
asEbool(b) == Handle("ebool", IF b THEN 1 ELSE 0)
toBytes32(h) == h                   \* euint32.unwrap / ebool.unwrap
Decrypt(h) == h.v = 1               \* what the backend discloses for an ebool

\* Encrypted inputs the callers submit (plaintexts are irrelevant here).
RuleInputs == { <<asEuint32(11), asEuint32(21), asEuint32(31)>>,
                <<asEuint32(12), asEuint32(22), asEuint32(32)>> }
UrlInputs  == { <<asEuint32(41), asEuint32(51)>> }
\* Results the backend may sign for a computation request.
Scores == {MIN_MATCH_SCORE + 15}
Results == [matchScore : Scores, shouldBlock : BOOLEAN]

VARIABLES
    now,                 \* block.timestamp of the current block
    ruleCount,           \* uint256 public ruleCount
    filteringRules,      \* mapping(uint256 => EncryptedRule)
    matchResults,        \* mapping(address => MatchResult)
    lastUpdateTimestamp, \* uint256 public lastUpdateTimestamp
    lastSyncTimestamps,  \* mapping(address => uint256)
    requests,            \* backend: the requests dispatched so far, by requestId
    ruleAdded,           \* log of RuleAdded events (the ruleId of each)
    last,                \* the last call: function, caller, arguments, outcome
    store,               \* frontend: the key-value store behind getData / setData
    sessions,            \* frontend: each browser session's handler in progress
    clock                \* frontend: Date.now()

vars == <<now, ruleCount, filteringRules, matchResults, lastUpdateTimestamp,
          lastSyncTimestamps, requests, ruleAdded, last, store, sessions, clock>>

\* The state of the frontend, which no function of the contract touches.
web == <<store, sessions, clock>>

storage == <<ruleCount, filteringRules, matchResults, lastUpdateTimestamp,
             lastSyncTimestamps>>

RuleIds == 0..(MaxRules + 1)        \* keys of filteringRules the model tracks

EncryptedRule(d, p, t, ts) ==
    [encryptedDomainPattern |-> d, encryptedPathPattern |-> p,
     encryptedRuleType |-> t, timestamp |-> ts]

MatchResult(score, block, processed) ==
    [encryptedMatchScore |-> score, encryptedShouldBlock |-> block,
     isProcessed |-> processed]

\* Solidity's zero value of each struct: what an unset mapping key reads as.
NoRule == EncryptedRule(ZeroHandle, ZeroHandle, ZeroHandle, 0)
NoMatch == MatchResult(ZeroHandle, ZeroHandle, FALSE)

\* Observation of one call: status is "ok" or the revert reason; requestId is
\* the id a request returned or an accepted callback carried (0 otherwise);
\* shouldBlock is the decision an accepted callback decoded (FALSE otherwise);
\* genuine tells whether a callback delivered a result as the backend signed
\* it (FALSE for the calls that are no callbacks).
Call(op, caller, requestId, status, shouldBlock, genuine) ==
    [op |-> op, caller |-> caller, requestId |-> requestId,
     status |-> status, shouldBlock |-> shouldBlock, genuine |-> genuine]

(***************************************************************************)
(* Frontend data.  Two browser sessions run App.tsx against one key-value  *)
(* store (contract.getData / contract.setData).  A stored value is the     *)
(* UTF-8 bytes of a JSON text; a key never written reads as empty bytes.   *)
(***************************************************************************)
Sessions == {"s1", "s2"}

EmptyBytes == <<>>
\* ethers.toUtf8Bytes(JSON.stringify(v)): never empty
stringify(v) == <<v>>
\* JSON.parse(ethers.toUtf8String(bytes))
parse(bytes) == bytes[1]

RuleKeysKey == <<"rule_keys">>
RuleKey(id) == <<"rule_", id>>      \* `rule_${ruleId}`

getData(key) == IF key \in DOMAIN store THEN store[key] ELSE EmptyBytes

setData(key, value) ==
    store' = [k \in DOMAIN store \cup {key} |->
                 IF k = key THEN value ELSE store[k]]

\* `${Date.now()}-${Math.random().toString(36).substring(2, 9)}`
RuleId(ms, rnd) == [ms |-> ms, rnd |-> rnd]
NoRuleId == RuleId(0, 0)            \* an id no session ever made

\* What the user typed into the form (newRuleData).
NewRuleData == { [domain |-> "ads.example", ruleType |-> "ad-block",
                  pattern |-> "banner"] }

btoa(x) == <<"base64", x>>

\* const ruleData = { domain, ruleType, encryptedPattern, timestamp, isActive }
RuleData(form, timestamp) ==
    [domain |-> form.domain, ruleType |-> form.ruleType,
     encryptedPattern |-> <<"FHE-", btoa(form.pattern)>>,
     timestamp |-> timestamp, isActive |-> TRUE]

NoRuleData ==
    [domain |-> "", ruleType |-> "", encryptedPattern |-> <<>>,
     timestamp |-> 0, isActive |-> FALSE]

\* setTransactionStatus({ status, message })
TransactionStatus(status, message) == [status |-> status, message |-> message]

\* One session: the await its handler is suspended at (pc), the handler's
\* locals (ruleId, ruleData / updatedRule, keys, currentStatus), the React
\* state the handlers set (rules, transactionStatus), and the number of
\* handlers the user has started (clicks).  ruleId outlives the handler as
\* the record of what it was about.
NewSession ==
    [pc |-> "mount", ruleId |-> NoRuleId, ruleData |-> NoRuleData,
     keys |-> <<>>, currentStatus |-> FALSE, rules |-> <<>>,
     transactionStatus |-> TransactionStatus("pending", <<>>), clicks |-> 0]

Init ==
    /\ store = << >>
    /\ sessions = [s \in Sessions |-> NewSession]
    /\ clock = 1
    /\ now = 1
    /\ ruleCount = 0
    /\ filteringRules = [i \in RuleIds |-> NoRule]
    /\ matchResults = [a \in Addr |-> NoMatch]
    /\ lastUpdateTimestamp = 0
    /\ lastSyncTimestamps = [a \in Addr |-> 0]
    /\ requests = <<>>
    /\ ruleAdded = <<>>
    /\ last = Call("constructor", "alice", 0, "ok", FALSE, FALSE)

\* A later block: block.timestamp never decreases.
Tick ==
    /\ now < MaxTime
    /\ now' = now + 1
    /\ UNCHANGED <<web, storage, requests, ruleAdded, last>>

\* A reverting call: the transaction is rolled back, nothing is dispatched.
Revert(op, caller, reason, genuine) ==
    /\ last' = Call(op, caller, 0, reason, FALSE, genuine)
    /\ UNCHANGED <<web, now, storage, requests, ruleAdded>>

(***************************************************************************)
(* RuleLedger                                                              *)
(***************************************************************************)
\* modifier onlyMaintainer: the require is commented out, the body is `_;`.
onlyMaintainer(caller) == TRUE

\* Mutant: the id is read before the increment (ruleCount++).
NewRuleId_PostIncrement == ruleCount

\* uint256 newId = ++ruleCount;  -- the value of the pre-increment
NewRuleId == ruleCount + 1

addFilteringRule(caller, domainPattern, pathPattern, ruleType) ==
    /\ ruleCount < MaxRules
    /\ onlyMaintainer(caller)
    /\ LET newId == NewRuleId IN
        /\ ruleCount' = ruleCount + 1
        /\ filteringRules' = [filteringRules EXCEPT ![newId] =
               EncryptedRule(domainPattern, pathPattern, ruleType, now)]
        /\ lastUpdateTimestamp' = now
        /\ ruleAdded' = Append(ruleAdded, newId)
    /\ last' = Call("addFilteringRule", caller, 0, "ok", FALSE, FALSE)
    /\ UNCHANGED <<web, now, matchResults, lastSyncTimestamps, requests>>

\* Mutant: the require is missing.
RuleExists_Always(ruleId) == TRUE

\* Mutant: a rule written in the first block counts as unset.
RuleExists_AfterFirstBlock(ruleId) == filteringRules[ruleId].timestamp > 1

\* require(filteringRules[ruleId].timestamp > 0, "Rule not found");
RuleExists(ruleId) == filteringRules[ruleId].timestamp > 0

\* Mutant: the update does not stamp the ledger.
updateFilteringRule_NoStamp(caller, ruleId, newDomainPattern, newPathPattern, newRuleType) ==
    /\ onlyMaintainer(caller)
    /\ IF ~RuleExists(ruleId)
       THEN Revert("updateFilteringRule", caller, "Rule not found", FALSE)
       ELSE /\ filteringRules' = [filteringRules EXCEPT ![ruleId] =
                   EncryptedRule(newDomainPattern, newPathPattern, newRuleType, now)]
            /\ last' = Call("updateFilteringRule", caller, 0, "ok", FALSE, FALSE)
            /\ UNCHANGED <<web, now, ruleCount, matchResults, lastUpdateTimestamp,
                           lastSyncTimestamps, requests, ruleAdded>>

updateFilteringRule(caller, ruleId, newDomainPattern, newPathPattern, newRuleType) ==
    /\ onlyMaintainer(caller)
    /\ IF ~RuleExists(ruleId)
       THEN Revert("updateFilteringRule", caller, "Rule not found", FALSE)
       ELSE /\ filteringRules' = [filteringRules EXCEPT ![ruleId] =
                   EncryptedRule(newDomainPattern, newPathPattern, newRuleType, now)]
            /\ lastUpdateTimestamp' = now
            /\ last' = Call("updateFilteringRule", caller, 0, "ok", FALSE, FALSE)
            /\ UNCHANGED <<web, now, ruleCount, matchResults, lastSyncTimestamps,
                           requests, ruleAdded>>

(***************************************************************************)
(* Computation backend (the FHE library and the off-chain service behind   *)
(* it).  requestComputation / requestDecryption hand the ciphertexts to    *)
(* the backend and return the next requestId; the backend later signs a    *)
(* result for a request it has received.  A proof is the signed pair       *)
(* (requestId, result); anybody can produce an unsigned one.               *)
(***************************************************************************)
Request(kind, sender, ciphertexts) ==
    [kind |-> kind, sender |-> sender, ciphertexts |-> ciphertexts]

Proof(signer, requestId, result) ==
    [signer |-> signer, requestId |-> requestId, result |-> result]

Issued(kind) == {r \in 1..Len(requests) : requests[r].kind = kind}

\* The results the backend can sign for request r: for a computation any
\* result (the comparison circuit is opaque), for a decryption the plaintext
\* of the ciphertext the request named and nothing else.
Signable(r) ==
    IF requests[r].kind = "computation" THEN Results
    ELSE {Decrypt(requests[r].ciphertexts[1])}

Callback(requestId, result, proof) ==
    [requestId |-> requestId, result |-> result, proof |-> proof]

SignedCallbacks(kind) ==
    UNION { {Callback(r, res, Proof("backend", r, res)) : res \in Signable(r)} :
            r \in Issued(kind) }

\* Whether a callback delivers a result of the backend as it was signed.
Genuine(kind, requestId, result, proof) ==
    /\ requestId \in Issued(kind)
    /\ result \in Signable(requestId)
    /\ proof = Proof("backend", requestId, result)

\* A signed result delivered under the id issued just before its own.
TamperedId(cb) == [cb EXCEPT !.requestId = cb.requestId - 1]

\* A signed result delivered with another result in its place.
TamperedResult(cb, results) ==
    {[cb EXCEPT !.result = x] : x \in results \ {cb.result}}

\* Results nobody signed, for any id (issued or not).
Unsigned(results) ==
    {Callback(r, res, Proof("forger", r, res)) : r \in 0..MaxReq, res \in results}

\* The callbacks that can arrive for requests of one kind, `results` being the
\* values a result of that kind ranges over.
Callbacks(kind, results) ==
    LET signed == SignedCallbacks(kind) IN
    signed \cup {TamperedId(cb) : cb \in signed}
           \cup UNION {TamperedResult(cb, results) : cb \in signed}
           \cup Unsigned(results)

\* Mutant: the signer of the proof is not checked.
checkSignatures_AnySigner(requestId, results, proof) ==
    /\ proof.requestId = requestId
    /\ proof.result = results

\* FHE.checkSignatures(requestId, results, proof): passes only for the
\* backend's signature over exactly this requestId and this result.
checkSignatures(requestId, results, proof) ==
    /\ proof.signer = "backend"
    /\ proof.requestId = requestId
    /\ proof.result = results

(***************************************************************************)
(* MatchingCoordinator                                                     *)
(***************************************************************************)
\* for (i = 1; i <= ruleCount; i++) { three ciphertexts of rule i }
RECURSIVE FlattenRules(_)
FlattenRules(n) ==
    IF n = 0 THEN <<>>
    ELSE FlattenRules(n - 1) \o
         << toBytes32(filteringRules[n].encryptedDomainPattern),
            toBytes32(filteringRules[n].encryptedPathPattern),
            toBytes32(filteringRules[n].encryptedRuleType) >>

\* Mutant: the two URL components are written in the other order.
MatchPayload_PathFirst(encryptedDomain, encryptedPath) ==
    <<toBytes32(encryptedPath), toBytes32(encryptedDomain)>> \o FlattenRules(ruleCount)

\* bytes32[] ciphertexts of requestUrlMatching
MatchPayload(encryptedDomain, encryptedPath) ==
    <<toBytes32(encryptedDomain), toBytes32(encryptedPath)>> \o FlattenRules(ruleCount)

requestUrlMatching(caller, encryptedDomain, encryptedPath) ==
    /\ Len(requests) < MaxReq
    /\ matchResults' = [matchResults EXCEPT ![caller] =
           MatchResult(asEuint32(0), asEbool(FALSE), FALSE)]
    /\ requests' = Append(requests,
           Request("computation", caller, MatchPayload(encryptedDomain, encryptedPath)))
    /\ last' = Call("requestUrlMatching", caller, Len(requests) + 1, "ok", FALSE, FALSE)
    /\ UNCHANGED <<web, now, ruleCount, filteringRules, lastUpdateTimestamp,
                   lastSyncTimestamps, ruleAdded>>

\* The storage slot performMatching writes: matchResults[msg.sender].
MatchSlot(caller, requestId) == caller

\* Mutant: the cursor keeps the time elapsed since the previous sync.
SyncPoint_Elapsed(caller) == now - lastSyncTimestamps[caller]

\* The value performMatching writes to the cursor: block.timestamp.
SyncPoint(caller) == now

\* Mutant: the callback stamps the ledger instead of the caller's cursor.
performMatching_StampsLedger(caller, requestId, results, proof) ==
    IF ~checkSignatures(requestId, results, proof)
    THEN Revert("performMatching", caller, "InvalidProof",
                Genuine("computation", requestId, results, proof))
    ELSE LET slot == MatchSlot(caller, requestId) IN
         /\ matchResults' = [matchResults EXCEPT ![slot] =
                MatchResult(asEuint32(results.matchScore),
                            asEbool(results.shouldBlock), TRUE)]
         /\ lastUpdateTimestamp' = now
         /\ last' = Call("performMatching", caller, requestId, "ok",
                         results.shouldBlock, Genuine("computation", requestId, results, proof))
         /\ UNCHANGED <<web, now, ruleCount, filteringRules, lastSyncTimestamps,
                        requests, ruleAdded>>

performMatching(caller, requestId, results, proof) ==
    IF ~checkSignatures(requestId, results, proof)
    THEN Revert("performMatching", caller, "InvalidProof",
                Genuine("computation", requestId, results, proof))
    ELSE LET slot == MatchSlot(caller, requestId) IN
         /\ matchResults' = [matchResults EXCEPT ![slot] =
                MatchResult(asEuint32(results.matchScore),
                            asEbool(results.shouldBlock), TRUE)]
         /\ lastSyncTimestamps' = [lastSyncTimestamps EXCEPT ![slot] = SyncPoint(slot)]
         /\ last' = Call("performMatching", caller, requestId, "ok",
                         results.shouldBlock, Genuine("computation", requestId, results, proof))
         /\ UNCHANGED <<web, now, ruleCount, filteringRules, lastUpdateTimestamp,
                        requests, ruleAdded>>

\* function getEncryptedMatchResult() view
getEncryptedMatchResult(caller) ==
    IF ~matchResults[caller].isProcessed
    THEN [status |-> "Not processed", value |-> ZeroHandle]
    ELSE [status |-> "ok", value |-> matchResults[caller].encryptedShouldBlock]

(***************************************************************************)
(* DecryptionCoordinator                                                   *)
(***************************************************************************)
\* Mutant: the require is missing.
DecryptionAllowed_Always(caller) == TRUE

\* require(matchResults[msg.sender].isProcessed, "Not processed");
DecryptionAllowed(caller) == matchResults[caller].isProcessed

requestDecisionDecryption(caller) ==
    IF ~DecryptionAllowed(caller)
    THEN Revert("requestDecisionDecryption", caller, "Not processed", FALSE)
    ELSE /\ Len(requests) < MaxReq
         /\ requests' = Append(requests, Request("decryption", caller,
                <<toBytes32(matchResults[caller].encryptedShouldBlock)>>))
         /\ last' = Call("requestDecisionDecryption", caller, Len(requests) + 1,
                         "ok", FALSE, FALSE)
         /\ UNCHANGED <<web, now, storage, ruleAdded>>

decryptDecision(caller, requestId, cleartexts, proof) ==
    IF ~checkSignatures(requestId, cleartexts, proof)
    THEN Revert("decryptDecision", caller, "InvalidProof",
                Genuine("decryption", requestId, cleartexts, proof))
    ELSE \* bool shouldBlock = abi.decode(cleartexts, (bool)); nothing is stored
         /\ last' = Call("decryptDecision", caller, requestId, "ok", cleartexts,
                         Genuine("decryption", requestId, cleartexts, proof))
         /\ UNCHANGED <<web, now, storage, requests, ruleAdded>>

(***************************************************************************)
(* SyncCoordinator                                                         *)
(***************************************************************************)
\* Mutant: the comparison is not strict.
needsUpdate_Inclusive(caller) == lastSyncTimestamps[caller] <= lastUpdateTimestamp

\* function needsUpdate() view
needsUpdate(caller) == lastSyncTimestamps[caller] < lastUpdateTimestamp

\* Mutant: the comparison with the cursor is not strict.
Changed_Inclusive(i, caller) ==
    filteringRules[i].timestamp >= lastSyncTimestamps[caller]

\* if (filteringRules[i].timestamp > lastSyncTimestamps[msg.sender])
Changed(i, caller) == filteringRules[i].timestamp > lastSyncTimestamps[caller]

\* The second loop of getRuleUpdates over i = 1..n: the ids it copies, in the
\* order it copies them.
RECURSIVE UpdatedIds(_, _)
UpdatedIds(n, caller) ==
    IF n = 0 THEN <<>>
    ELSE IF Changed(n, caller)
         THEN Append(UpdatedIds(n - 1, caller), n)
         ELSE UpdatedIds(n - 1, caller)

\* function getRuleUpdates() view: the four parallel arrays it returns.
getRuleUpdates(caller) ==
    LET ids == UpdatedIds(ruleCount, caller) IN
    [domains |-> [k \in 1..Len(ids) |->
                     toBytes32(filteringRules[ids[k]].encryptedDomainPattern)],
     paths |-> [k \in 1..Len(ids) |->
                     toBytes32(filteringRules[ids[k]].encryptedPathPattern)],
     types |-> [k \in 1..Len(ids) |->
                     toBytes32(filteringRules[ids[k]].encryptedRuleType)],
     timestamps |-> [k \in 1..Len(ids) |-> filteringRules[ids[k]].timestamp]]

\* Mutant: a view call acknowledges what it read (moves the caller's cursor).
View_Acknowledging(op, caller) ==
    /\ last' = Call(op, caller, 0, "ok", FALSE, FALSE)
    /\ lastSyncTimestamps' = [lastSyncTimestamps EXCEPT ![caller] = now]
    /\ UNCHANGED <<web, now, ruleCount, filteringRules, matchResults,
                   lastUpdateTimestamp, requests, ruleAdded>>

\* A call of a function declared `view`: the body reads storage, computes
\* the value it returns, and assigns to nothing but its own memory.
View(op, caller) ==
    /\ last' = Call(op, caller, 0, "ok", FALSE, FALSE)
    /\ UNCHANGED <<web, now, storage, requests, ruleAdded>>

\* The calls of the two views of the sync path; what they return is
\* needsUpdate(caller) and getRuleUpdates(caller) in the state of the call.
needsUpdateCall(caller) == View("needsUpdate", caller)
getRuleUpdatesCall(caller) == View("getRuleUpdates", caller)

(***************************************************************************)
(* Frontend (App.tsx).  A handler runs until its next await; the awaited   *)
(* call to the store is one step of its own, so the handlers of the two    *)
(* sessions interleave at the awaits.  An awaited call may also reject     *)
(* (the wallet refuses, the transaction fails): the handler's catch runs.  *)
(* Of the React state only rules and transactionStatus are kept.           *)
(***************************************************************************)
chain == <<now, ruleCount, filteringRules, matchResults, lastUpdateTimestamp,
           lastSyncTimestamps, requests, ruleAdded, last>>

Range(f) == {f[k] : k \in DOMAIN f}

\* The user may start another handler.
RECURSIVE Clicks(_)
Clicks(S) ==
    IF S = {} THEN 0
    ELSE LET s == CHOOSE x \in S : TRUE IN sessions[s].clicks + Clicks(S \ {s})

MayClick == Clicks(Sessions) < MaxWebOps

\* The ids some session has made so far, stored or not.
MadeIds ==
    {k[2] : k \in {q \in DOMAIN store : Len(q) = 2}}
        \cup ({sessions[s].ruleId : s \in Sessions} \ {NoRuleId})

\* Math.random(): a value no id carries yet.
FreshRnd ==
    LET used == {id.rnd : id \in MadeIds} \cup {0}
    IN (CHOOSE x \in used : \A y \in used : y <= x) + 1

\* keys = keysBytes.length > 0 ? JSON.parse(...) : []
ParseKeys(keysBytes) == IF Len(keysBytes) > 0 THEN parse(keysBytes) ELSE <<>>

\* list.sort((a, b) => b.timestamp - a.timestamp): newest first, stable.
InsertByTimestamp(list, r) ==
    LET older == {k \in 1..Len(list) : list[k].timestamp < r.timestamp}
        at == IF older = {} THEN Len(list) + 1
              ELSE CHOOSE k \in older : \A j \in older : k <= j
    IN SubSeq(list, 1, at - 1) \o <<r>> \o SubSeq(list, at, Len(list))

RECURSIVE SortByTimestamp(_)
SortByTimestamp(list) ==
    IF list = <<>> THEN <<>>
    ELSE InsertByTimestamp(SortByTimestamp(SubSeq(list, 1, Len(list) - 1)),
                           list[Len(list)])

\* The for loop of loadRules over keys[1..n]: a FilterRule for every key
\* whose record is not empty.
RECURSIVE CollectRules(_, _)
CollectRules(keys, n) ==
    IF n = 0 THEN <<>>
    ELSE LET ruleBytes == getData(RuleKey(keys[n])) IN
         IF Len(ruleBytes) > 0
         THEN Append(CollectRules(keys, n - 1),
                     [id |-> keys[n],
                      domain |-> parse(ruleBytes).domain,
                      ruleType |-> parse(ruleBytes).ruleType,
                      encryptedPattern |-> parse(ruleBytes).encryptedPattern,
                      timestamp |-> parse(ruleBytes).timestamp,
                      isActive |-> parse(ruleBytes).isActive])
         ELSE CollectRules(keys, n - 1)

\* The list loadRules hands to setRules.
LoadedRules ==
    LET keys == ParseKeys(getData(RuleKeysKey)) IN
    SortByTimestamp(CollectRules(keys, Len(keys)))

\* const loadRules = async () => ...: on mount, after addRule and
\* toggleRuleStatus, and from the refresh button.  When the contract is not
\* available it returns without setRules.
loadRules(s) ==
    /\ sessions[s].pc \in {"mount", "idle", "addRule_loadRules",
                            "toggleRuleStatus_loadRules"}
    /\ sessions[s].pc = "idle" => MayClick
    /\ \E loaded \in {LoadedRules, sessions[s].rules} :
          sessions' = [sessions EXCEPT
              ![s].rules = loaded, ![s].pc = "idle",
              ![s].ruleData = NoRuleData, ![s].keys = <<>>,
              ![s].currentStatus = FALSE,
              ![s].clicks = IF sessions[s].pc = "idle" THEN @ + 1 ELSE @]
    /\ UNCHANGED <<chain, store, clock>>

\* addRule up to its first await: the id and the record are made.
addRule(s, newRuleData) ==
    /\ sessions[s].pc = "idle"
    /\ MayClick
    /\ \E t \in clock..MaxClock :
          /\ clock' = t
          /\ sessions' = [sessions EXCEPT
                ![s].clicks = @ + 1,
                ![s].pc = "addRule_setRule",
                ![s].ruleId = RuleId(t, FreshRnd),
                ![s].ruleData = RuleData(newRuleData, t),
                ![s].transactionStatus =
                    TransactionStatus("pending", <<"Encrypting filter rule with FHE...">>)]
    /\ UNCHANGED <<chain, store>>

\* await contract.setData(`rule_${ruleId}`, ...)
addRule_setRule(s) ==
    /\ sessions[s].pc = "addRule_setRule"
    /\ setData(RuleKey(sessions[s].ruleId), stringify(sessions[s].ruleData))
    /\ sessions' = [sessions EXCEPT ![s].pc = "addRule_getKeys"]
    /\ UNCHANGED <<chain, clock>>

\* Mutant: the index is rebuilt from this session's rule alone.
NextKeys_OwnOnly(keys, ruleId) == <<ruleId>>

\* keys.push(ruleId)
NextKeys(keys, ruleId) == Append(keys, ruleId)

\* const keysBytes = await contract.getData("rule_keys"); ...; keys.push(ruleId)
addRule_getKeys(s) ==
    /\ sessions[s].pc = "addRule_getKeys"
    /\ sessions' = [sessions EXCEPT
          ![s].pc = "addRule_setKeys",
          ![s].keys = NextKeys(ParseKeys(getData(RuleKeysKey)), sessions[s].ruleId)]
    /\ UNCHANGED <<chain, store, clock>>

\* await contract.setData("rule_keys", ...); the status turns to success
addRule_setKeys(s) ==
    /\ sessions[s].pc = "addRule_setKeys"
    /\ setData(RuleKeysKey, stringify(sessions[s].keys))
    /\ sessions' = [sessions EXCEPT
          ![s].pc = "addRule_loadRules",
          ![s].transactionStatus =
              TransactionStatus("success", <<"Encrypted rule added successfully!">>)]
    /\ UNCHANGED <<chain, clock>>

\* toggleRuleStatus(ruleId, currentStatus) up to its first await.
toggleRuleStatus(s, ruleId, currentStatus) ==
    /\ sessions[s].pc = "idle"
    /\ MayClick
    /\ sessions' = [sessions EXCEPT
          ![s].clicks = @ + 1,
          ![s].pc = "toggleRuleStatus_getRule",
          ![s].ruleId = ruleId,
          ![s].currentStatus = currentStatus,
          ![s].transactionStatus =
              TransactionStatus("pending", <<"Updating rule status with FHE...">>)]
    /\ UNCHANGED <<chain, store, clock>>

\* Mutant: the length of the record is not checked.
RuleFound_Always(ruleBytes) == TRUE

\* if (ruleBytes.length === 0) throw new Error("Rule not found")
RuleFound(ruleBytes) == Len(ruleBytes) # 0

\* const ruleBytes = await contract.getData(`rule_${ruleId}`); ...;
\* updatedRule = { ...ruleData, isActive: !currentStatus }
toggleRuleStatus_getRule(s) ==
    /\ sessions[s].pc = "toggleRuleStatus_getRule"
    /\ LET ruleBytes == getData(RuleKey(sessions[s].ruleId)) IN
       IF ~RuleFound(ruleBytes)
       THEN sessions' = [sessions EXCEPT
                ![s].pc = "idle",
                ![s].currentStatus = FALSE,
                ![s].transactionStatus =
                    TransactionStatus("error", <<"Update failed: ", "Rule not found">>)]
       ELSE IF Len(ruleBytes) = 0      \* JSON.parse("") throws
       THEN sessions' = [sessions EXCEPT
                ![s].pc = "idle",
                ![s].currentStatus = FALSE,
                ![s].transactionStatus =
                    TransactionStatus("error",
                        <<"Update failed: ", "Unexpected end of JSON input">>)]
       ELSE sessions' = [sessions EXCEPT
                ![s].pc = "toggleRuleStatus_setRule",
                ![s].ruleData =
                    [parse(ruleBytes) EXCEPT !.isActive = ~sessions[s].currentStatus]]
    /\ UNCHANGED <<chain, store, clock>>

\* await contract.setData(`rule_${ruleId}`, updatedRule); status success
toggleRuleStatus_setRule(s) ==
    /\ sessions[s].pc = "toggleRuleStatus_setRule"
    /\ setData(RuleKey(sessions[s].ruleId), stringify(sessions[s].ruleData))
    /\ sessions' = [sessions EXCEPT
          ![s].pc = "toggleRuleStatus_loadRules",
          ![s].transactionStatus =
              TransactionStatus("success", <<"Rule status updated!">>)]
    /\ UNCHANGED <<chain, clock>>

\* The awaited call rejects: the catch block of the handler sets the error
\* status and the handler ends; nothing is written.
callRejected(s) ==
    /\ sessions[s].pc \in {"addRule_setRule", "addRule_getKeys", "addRule_setKeys",
                            "toggleRuleStatus_getRule", "toggleRuleStatus_setRule"}
    /\ sessions' = [sessions EXCEPT
          ![s].pc = "idle",
          ![s].ruleData = NoRuleData, ![s].keys = <<>>,
          ![s].currentStatus = FALSE,
          ![s].transactionStatus =
              IF sessions[s].pc \in {"addRule_setRule", "addRule_getKeys",
                                      "addRule_setKeys"}
              THEN TransactionStatus("error", <<"Submission failed: ", "call rejected">>)
              ELSE TransactionStatus("error", <<"Update failed: ", "call rejected">>)]
    /\ UNCHANGED <<chain, store, clock>>

(***************************************************************************)
(* Specifications.  The contract's state space is explored in slices, all  *)
(* built from the actions above.                                           *)
(*                                                                         *)
(* Spec       - the request / callback protocol within one block: both     *)
(*              addresses request and call back, up to MaxReq requests of  *)
(*              either kind, over a ledger of up to ProtoRules rules.      *)
(* SpecLedger - the ledger and the sync cursor: one caller, up to MaxRules *)
(*              rules over MaxTime timestamps, and the one computation     *)
(*              request (made on the empty ledger) whose callback moves    *)
(*              that caller's cursor, each time it is delivered; and the   *)
(*              two views of the sync path.                                *)
(* SpecAccess - the writers of the ledger: both addresses add and update   *)
(*              rules over MaxTime timestamps.                             *)
(* SpecWeb    - the frontend: two sessions adding rules and toggling them  *)
(*              against the shared store, MaxWebOps clicks in all.         *)
(* SpecPayload - the payload of a match request: up to MaxReq requests,    *)
(*              each over the ledger as it is when the request is made,    *)
(*              with up to PayloadRules rules added and updated in between.*)
(*                                                                         *)
(* Callbacks that checkSignatures rejects are delivered from one address   *)
(* only: a revert does not depend on who called.                           *)
(***************************************************************************)
LedgerCallers == {"alice"}
ProtoRuleInputs == { <<asEuint32(11), asEuint32(21), asEuint32(31)>> }
Rejected(kind, results) == Callbacks(kind, results) \ SignedCallbacks(kind)

Next ==
    \/ \E c \in LedgerCallers, in \in ProtoRuleInputs :
           /\ ruleCount < ProtoRules
           /\ addFilteringRule(c, in[1], in[2], in[3])
    \/ \E c \in Addr, url \in UrlInputs :
           requestUrlMatching(c, url[1], url[2])
    \/ \E c \in Addr, cb \in SignedCallbacks("computation") :
           performMatching(c, cb.requestId, cb.result, cb.proof)
    \/ \E c \in {"relayer"}, cb \in Rejected("computation", Results) :
           performMatching(c, cb.requestId, cb.result, cb.proof)
    \/ \E c \in Addr :
           requestDecisionDecryption(c)
    \/ \E c \in Addr, cb \in SignedCallbacks("decryption") :
           decryptDecision(c, cb.requestId, cb.result, cb.proof)
    \/ \E c \in {"relayer"}, cb \in Rejected("decryption", BOOLEAN) :
           decryptDecision(c, cb.requestId, cb.result, cb.proof)

Spec == Init /\ [][Next]_vars

\* The ledger slice follows one decision of the backend: the cursor moves
\* the same way whatever the result is.
LedgerCallbacks == {cb \in Callbacks("computation", Results) : cb.result.shouldBlock}

NextLedger ==
    \/ Tick
    \/ \E c \in LedgerCallers, in \in RuleInputs :
           addFilteringRule(c, in[1], in[2], in[3])
    \/ \E c \in LedgerCallers, id \in RuleIds, in \in RuleInputs :
           updateFilteringRule(c, id, in[1], in[2], in[3])
    \/ \E c \in LedgerCallers, url \in UrlInputs :
           /\ requests = <<>>
           /\ ruleCount = 0
           /\ requestUrlMatching(c, url[1], url[2])
    \/ \E c \in LedgerCallers, cb \in LedgerCallbacks :
           performMatching(c, cb.requestId, cb.result, cb.proof)
    \/ \E c \in LedgerCallers :
           needsUpdateCall(c)
    \/ \E c \in LedgerCallers :
           getRuleUpdatesCall(c)

SpecLedger == Init /\ [][NextLedger]_vars

NextAccess ==
    \/ Tick
    \/ \E c \in Addr, in \in RuleInputs :
           addFilteringRule(c, in[1], in[2], in[3])
    \/ \E c \in Addr, id \in RuleIds, in \in RuleInputs :
           updateFilteringRule(c, id, in[1], in[2], in[3])

SpecAccess == Init /\ [][NextAccess]_vars

NextPayload ==
    \/ \E c \in LedgerCallers, in \in RuleInputs :
           /\ ruleCount < PayloadRules
           /\ addFilteringRule(c, in[1], in[2], in[3])
    \/ \E c \in LedgerCallers, id \in 1..ruleCount, in \in RuleInputs :
           updateFilteringRule(c, id, in[1], in[2], in[3])
    \/ \E c \in LedgerCallers, url \in UrlInputs :
           requestUrlMatching(c, url[1], url[2])

SpecPayload == Init /\ [][NextPayload]_vars

\* What toggleRuleStatus is called with: a rule of the list the session
\* shows, with the status shown (the button of the rule), or an id that has
\* no record.
ToggleArgs(s) ==
    {<<r.id, r.isActive>> : r \in Range(sessions[s].rules)}
        \cup {<<NoRuleId, FALSE>>}

NextWeb ==
    \/ \E s \in Sessions : loadRules(s)
    \/ \E s \in Sessions, form \in NewRuleData : addRule(s, form)
    \/ \E s \in Sessions : addRule_setRule(s)
    \/ \E s \in Sessions : addRule_getKeys(s)
    \/ \E s \in Sessions : addRule_setKeys(s)
    \/ \E s \in Sessions : \E arg \in ToggleArgs(s) :
           toggleRuleStatus(s, arg[1], arg[2])
    \/ \E s \in Sessions : toggleRuleStatus_getRule(s)
    \/ \E s \in Sessions : toggleRuleStatus_setRule(s)
    \/ \E s \in Sessions : callRejected(s)

SpecWeb == Init /\ [][NextWeb]_vars

(***************************************************************************)
(* Vocabulary of the properties                                            *)
(***************************************************************************)
Max(S) == CHOOSE x \in S : \A y \in S : y <= x

\* The requestId of the client's latest requestUrlMatching (0 if none): the
\* id a PendingMatch of that client would record.
CurrentRequest(client) ==
    LET mine == {r \in Issued("computation") : requests[r].sender = client}
    IN IF mine = {} THEN 0 ELSE Max(mine)

CurrentRequests == {CurrentRequest(a) : a \in Addr} \ {0}

\* The last call was a match callback that the contract accepted.
MatchAccepted == last.op = "performMatching" /\ last.status = "ok"

MatchCallbacks == Callbacks("computation", Results)

\* Everything but the observation of the call itself.
world == <<now, storage, requests, ruleAdded>>

\* A rule is stored at id i.
Stored(i) == filteringRules[i] # NoRule

\* The ids of the rules stamped after the cursor of c.
NewerThanCursor(c) ==
    {i \in 1..ruleCount : filteringRules[i].timestamp > lastSyncTimestamps[c]}

\* The elements of a set of integers in ascending order.
Ascending(S) ==
    CHOOSE f \in [1..Cardinality(S) -> S] :
        \A j, k \in 1..Cardinality(S) : j < k => f[j] < f[k]

\* getRuleUpdates called by c returns empty arrays.
DiffEmpty(c) == Len(getRuleUpdates(c).timestamps) = 0

\* The ledger: what addFilteringRule and updateFilteringRule write.
ledger == <<ruleCount, filteringRules, lastUpdateTimestamp>>

\* The addresses that were never granted the maintainer capability (the
\* contract has no function that grants it).
NonMaintainers == {"relayer"}

\* The functions of the request / callback cycle.
ProtocolOps == {"requestUrlMatching", "performMatching",
                "requestDecisionDecryption", "decryptDecision"}

\* The ids listed under "rule_keys" in the store.
IndexedIds == Range(ParseKeys(getData(RuleKeysKey)))

\* The ids that have a record in the store.
RecordedIds == {k[2] : k \in {q \in DOMAIN store : Len(q) = 2}}

\* The last handler of session s was an addRule that ended in success.
AddRuleSucceeded(s) ==
    sessions[s].transactionStatus =
        TransactionStatus("success", <<"Encrypted rule added successfully!">>)

\* The functions of the contract that are no part of the sync path.
NonSyncOps == {"addFilteringRule", "updateFilteringRule", "requestUrlMatching",
               "performMatching", "requestDecisionDecryption", "decryptDecision"}

(***************************************************************************)
(* C1 - superseded callback.  Once a client has made a second              *)
(* requestUrlMatching, a callback carrying the id of its first request is  *)
(* not accepted: every accepted match callback carries the id of the       *)
(* latest request of the client the id was issued to.                      *)
(* Violated by the contract: it keeps no requestId, so the signed result   *)
(* of the superseded request is accepted.                                  *)
(***************************************************************************)
C1_SupersededCallbackRejected ==
    MatchAccepted =>
        last.requestId = CurrentRequest(requests[last.requestId].sender)

(***************************************************************************)
(* C2 - request identity.  A match callback whose requestId is not the     *)
(* current requestId of any client changes nothing in the contract         *)
(* (no PendingMatch, no sync cursor, no rule), even if its proof verifies. *)
(* Violated by the contract: performMatching never compares the id.        *)
(***************************************************************************)
C2_UnknownIdChangesNothing ==
    [][ \A c \in Addr, cb \in MatchCallbacks :
          ( /\ performMatching(c, cb.requestId, cb.result, cb.proof)
            /\ cb.requestId \notin CurrentRequests )
          => UNCHANGED storage ]_vars

(***************************************************************************)
(* C3 - fail-closed proof check.  A match or decryption callback whose     *)
(* proof is not the backend's signature over the id and result it carries  *)
(* is rejected with InvalidProof and leaves every PendingMatch, every      *)
(* cursor, every rule, ruleCount and lastUpdateTimestamp as they were,     *)
(* and dispatches nothing.                                                 *)
(***************************************************************************)
C3_InvalidProofChangesNothing ==
    [][ ( /\ last' # last
          /\ last'.op \in {"performMatching", "decryptDecision"}
          /\ ~last'.genuine )
        => (last'.status = "InvalidProof" /\ UNCHANGED world) ]_vars

\* A rejected match callback has been delivered while a request was pending
\* over a non-empty ledger.
C3_Witness ==
    /\ last.op = "performMatching"
    /\ last.status = "InvalidProof"
    /\ ruleCount > 0
    /\ \E a \in Addr : CurrentRequest(a) # 0 /\ ~matchResults[a].isProcessed

(***************************************************************************)
(* C4 - request / response completion.  When the backend (a caller other   *)
(* than the client) delivers the signed result of the client's current     *)
(* request, the client's PendingMatch is Processed and                     *)
(* getEncryptedMatchResult, called by the client, returns that decision.   *)
(* Violated by the contract: the result is stored under the caller of the  *)
(* callback, not under the client that made the request.                   *)
(***************************************************************************)
C4_CallbackCompletesRequest ==
    MatchAccepted =>
        LET client == requests[last.requestId].sender IN
        ( /\ last.caller # client
          /\ last.requestId = CurrentRequest(client) )
        => /\ getEncryptedMatchResult(client).status = "ok"
           /\ Decrypt(getEncryptedMatchResult(client).value) = last.shouldBlock

(***************************************************************************)
(* C5 - single owner.  A match callback carrying a requestId issued to     *)
(* client A changes no PendingMatch other than A's, whoever delivers it.   *)
(* Violated by the contract: the callback writes the PendingMatch of its   *)
(* caller.                                                                 *)
(***************************************************************************)
C5_CallbackTouchesOnlyRequester ==
    [][ \A c \in Addr, cb \in MatchCallbacks :
          ( /\ performMatching(c, cb.requestId, cb.result, cb.proof)
            /\ cb.requestId \in Issued("computation") )
          => \A a \in Addr \ {requests[cb.requestId].sender} :
                matchResults'[a] = matchResults[a] ]_vars

(***************************************************************************)
(* C6 - decryption needs a Processed match.  requestDecisionDecryption     *)
(* called by a client whose PendingMatch is absent or still Requested      *)
(* fails with "Not processed", dispatches nothing and changes nothing;     *)
(* and whenever a decryption request is dispatched, the PendingMatch of    *)
(* the client it is dispatched for was Processed at that moment.           *)
(***************************************************************************)
C6_DecryptionNeedsProcessed ==
    [][ /\ \A c \in Addr :
             (requestDecisionDecryption(c) /\ ~matchResults[c].isProcessed)
             => (last'.status = "Not processed" /\ UNCHANGED world)
        /\ \A r \in 1..Len(requests') :
             (r > Len(requests) /\ requests'[r].kind = "decryption")
             => matchResults[requests'[r].sender].isProcessed ]_vars

\* requestDecisionDecryption has been refused to a client whose match is
\* still Requested, while the other client holds a decryption ticket.
C6_Witness ==
    /\ last.op = "requestDecisionDecryption"
    /\ last.status = "Not processed"
    /\ CurrentRequest(last.caller) # 0
    /\ ~matchResults[last.caller].isProcessed
    /\ Issued("decryption") # {}

(***************************************************************************)
(* C7 - the decision survives to decryption.  Right after the signed       *)
(* result of client c's current request, carrying shouldBlock = b, has     *)
(* been accepted, requestDecisionDecryption called by c succeeds, and the  *)
(* ciphertext it sends for disclosure decrypts to b (so b is the only      *)
(* decision an accepted decryptDecision can deliver for it).               *)
(* Violated by the contract whenever the callback was delivered by the     *)
(* backend: the client's own PendingMatch is still Requested (see C4).     *)
(***************************************************************************)
C7_DecryptionYieldsDecision ==
    [][ \A c \in Addr :
          ( /\ MatchAccepted
            /\ requests[last.requestId].sender = c
            /\ last.requestId = CurrentRequest(c)
            /\ requestDecisionDecryption(c) )
          => /\ last'.status = "ok"
             /\ Decrypt(requests'[Len(requests')].ciphertexts[1]) = last.shouldBlock
      ]_vars

(***************************************************************************)
(* C8 - dense rule ids.  ruleCount equals the number of successful         *)
(* addFilteringRule calls (one RuleAdded event each), the k-th of them was *)
(* assigned id k, rules are stored at exactly the ids 1..ruleCount, and no *)
(* step decreases ruleCount or removes the rule stored at an id.           *)
(***************************************************************************)
C8_DenseRuleIds ==
    /\ [] /\ ruleCount = Len(ruleAdded)
          /\ \A k \in 1..Len(ruleAdded) : ruleAdded[k] = k
          /\ {i \in RuleIds : Stored(i)} = 1..ruleCount
    /\ [][ /\ ruleCount' >= ruleCount
           /\ \A i \in RuleIds : Stored(i) => Stored(i)' ]_vars

\* Three rules have been added, then one of them updated, with a match
\* request and its callback in between.
C8_Witness ==
    /\ Len(ruleAdded) = 3
    /\ last.op = "updateFilteringRule"
    /\ last.status = "ok"
    /\ lastSyncTimestamps["alice"] > 0

(***************************************************************************)
(* C9 - the delta.  getRuleUpdates called by c returns exactly the rules   *)
(* whose timestamp is strictly greater than c's cursor (0 if c never       *)
(* synced), each once and no other, in ascending id order, with their      *)
(* three ciphertexts and their timestamp.                                  *)
(***************************************************************************)
C9_DiffIsExactlyTheNewerRules ==
    \A c \in Addr :
        LET ids == Ascending(NewerThanCursor(c))
            got == getRuleUpdates(c)
            n == Len(ids)
        IN /\ Len(got.domains) = n /\ Len(got.paths) = n
           /\ Len(got.types) = n /\ Len(got.timestamps) = n
           /\ \A k \in 1..n :
                /\ got.domains[k] = filteringRules[ids[k]].encryptedDomainPattern
                /\ got.paths[k] = filteringRules[ids[k]].encryptedPathPattern
                /\ got.types[k] = filteringRules[ids[k]].encryptedRuleType
                /\ got.timestamps[k] = filteringRules[ids[k]].timestamp

\* Three rules at three timestamps, the cursor strictly between the first and
\* the second: the delta is the second and the third rule, in that order.
C9_Witness ==
    /\ ruleCount = 3
    /\ filteringRules[1].timestamp < lastSyncTimestamps["alice"]
    /\ lastSyncTimestamps["alice"] < filteringRules[2].timestamp
    /\ filteringRules[2].timestamp < filteringRules[3].timestamp
    /\ filteringRules[2].encryptedDomainPattern # filteringRules[3].encryptedDomainPattern
    /\ getRuleUpdates("alice").timestamps =
           <<filteringRules[2].timestamp, filteringRules[3].timestamp>>
    /\ getRuleUpdates("alice").domains =
           <<filteringRules[2].encryptedDomainPattern,
             filteringRules[3].encryptedDomainPattern>>

(***************************************************************************)
(* C10 - nothing left after the acknowledgment.  The contract's only       *)
(* write of a cursor is the one performMatching makes; once a step has     *)
(* moved c's cursor, getRuleUpdates called by c returns empty arrays, and  *)
(* it keeps returning empty arrays until a rule is added or updated.       *)
(***************************************************************************)
C10_EmptyAfterAcknowledge ==
    [][ \A c \in Addr :
          /\ lastSyncTimestamps'[c] # lastSyncTimestamps[c] => DiffEmpty(c)'
          /\ (DiffEmpty(c) /\ UNCHANGED <<ruleCount, filteringRules>>)
             => DiffEmpty(c)' ]_vars

\* The cursor of alice has been moved to the time of the last write of a
\* ledger of three rules; time has passed since and her delta is still empty.
C10_Witness ==
    /\ ruleCount = 3
    /\ MatchAccepted
    /\ last.caller = "alice"
    /\ lastSyncTimestamps["alice"] = lastUpdateTimestamp
    /\ now > lastSyncTimestamps["alice"]
    /\ DiffEmpty("alice")

(***************************************************************************)
(* C11 - the sync reads are pure.  A call of getRuleUpdates or needsUpdate *)
(* changes no cursor, no PendingMatch, nothing in the ledger and           *)
(* dispatches nothing; so what either of them returns to any caller is the *)
(* same after the call as before it (a second call with no operation in    *)
(* between returns the same delta).                                        *)
(***************************************************************************)
C11_ViewsChangeNothing ==
    [][ ( /\ last' # last
          /\ last'.op \in {"needsUpdate", "getRuleUpdates"} )
        => /\ UNCHANGED world
           /\ \A c \in Addr :
                /\ getRuleUpdates(c)' = getRuleUpdates(c)
                /\ needsUpdate(c)' = needsUpdate(c) ]_vars

\* getRuleUpdates has been called by alice while her cursor was set and her
\* delta was not empty.
C11_Witness ==
    /\ last.op = "getRuleUpdates"
    /\ last.caller = "alice"
    /\ lastSyncTimestamps["alice"] > 0
    /\ needsUpdate("alice")
    /\ ~DiffEmpty("alice")

(***************************************************************************)
(* C12 - the cursor belongs to the sync path.  No step of addFilteringRule,*)
(* updateFilteringRule, requestUrlMatching, performMatching,               *)
(* requestDecisionDecryption or decryptDecision changes the cursor of any  *)
(* client.                                                                 *)
(* Violated by the contract: an accepted performMatching sets the cursor   *)
(* of its caller to block.timestamp.                                       *)
(***************************************************************************)
C12_CursorMovedOnlyBySync ==
    [][ last'.op \in NonSyncOps => UNCHANGED lastSyncTimestamps ]_vars

(***************************************************************************)
(* C13 - no rule change is lost.  Whenever a step adds or updates a rule,  *)
(* that rule is in the delta getRuleUpdates returns next to every client   *)
(* (the step comes after everything the client has acknowledged), also     *)
(* when the step happens at the very timestamp the client's cursor holds.  *)
(* Violated by the contract: the cursor is set to block.timestamp and the  *)
(* delta is strict, so a rule written later in the same block is skipped.  *)
(***************************************************************************)
C13_NoRuleChangeLost ==
    [][ \A c \in Addr, i \in 1..ruleCount' :
          filteringRules'[i] # filteringRules[i] => Changed(i, c)' ]_vars

(***************************************************************************)
(* C14 - the cursor only advances.  No step decreases the cursor of any    *)
(* client.                                                                 *)
(***************************************************************************)
C14_CursorNeverDecreases ==
    [][ \A c \in Addr : lastSyncTimestamps'[c] >= lastSyncTimestamps[c] ]_vars

\* The callback has just moved the cursor of alice to a block later than the
\* first one, over a ledger that is not empty.
C14_Witness ==
    /\ MatchAccepted
    /\ last.caller = "alice"
    /\ ruleCount > 0
    /\ now > 1
    /\ lastSyncTimestamps["alice"] = now

(***************************************************************************)
(* C15 - a new request supersedes the old match.  Right after              *)
(* requestUrlMatching by c, getEncryptedMatchResult and                    *)
(* requestDecisionDecryption called by c fail with "Not processed",        *)
(* whatever c's PendingMatch was before; and c's PendingMatch becomes      *)
(* Processed again only by a step that accepts a callback carrying the id  *)
(* of c's latest request.                                                  *)
(* Violated by the contract: it keeps no requestId (see C1), so a callback *)
(* for a superseded or foreign request, delivered by c, makes c's          *)
(* PendingMatch Processed.                                                 *)
(***************************************************************************)
C15_RequestSupersedesMatch ==
    /\ [] ( (last.op = "requestUrlMatching" /\ last.status = "ok")
            => /\ getEncryptedMatchResult(last.caller).status = "Not processed"
               /\ ~DecryptionAllowed(last.caller) )
    /\ [][ \A c \in Addr :
             ( /\ CurrentRequest(c) # 0
               /\ ~matchResults[c].isProcessed
               /\ matchResults'[c].isProcessed )
             => /\ last'.op = "performMatching"
                /\ last'.status = "ok"
                /\ last'.requestId = CurrentRequest(c) ]_vars

(***************************************************************************)
(* C16 - single-use decryption ticket.  Once decryptDecision carrying      *)
(* requestId R has been accepted, the next delivery of a callback carrying *)
(* the same R is not accepted.                                             *)
(* Violated by the contract: decryptDecision records nothing, so the       *)
(* signed cleartext of R is accepted every time it is delivered.           *)
(***************************************************************************)
C16_TicketIsSingleUse ==
    [][ (last.op = "decryptDecision" /\ last.status = "ok")
        => ~( /\ last' # last
              /\ last'.op = "decryptDecision"
              /\ last'.status = "ok"
              /\ last'.requestId = last.requestId ) ]_vars

(***************************************************************************)
(* C17 - maintainer gate.  addFilteringRule and updateFilteringRule called *)
(* by an address without the maintainer capability fail with Unauthorized  *)
(* and leave ruleCount, every rule and lastUpdateTimestamp unchanged.      *)
(* Violated by the contract: onlyMaintainer checks nothing.                *)
(***************************************************************************)
C17_OnlyMaintainersWrite ==
    [][ \A c \in NonMaintainers, in \in RuleInputs :
          /\ addFilteringRule(c, in[1], in[2], in[3])
               => (last'.status = "Unauthorized" /\ UNCHANGED ledger)
          /\ \A id \in RuleIds :
               updateFilteringRule(c, id, in[1], in[2], in[3])
               => (last'.status \in {"Unauthorized", "Rule not found"}
                   /\ UNCHANGED ledger) ]_vars

(***************************************************************************)
(* C18 - update of an unknown id.  updateFilteringRule with an id that was *)
(* never assigned (0 or greater than ruleCount) fails with "Rule not       *)
(* found" and changes nothing: ruleCount, every rule (none is created at   *)
(* that id), lastUpdateTimestamp and the RuleAdded log stay as they were.  *)
(***************************************************************************)
C18_UpdateUnknownIdFails ==
    [][ \A c \in Addr, id \in RuleIds, in \in RuleInputs :
          ( /\ (id = 0 \/ id > ruleCount)
            /\ updateFilteringRule(c, id, in[1], in[2], in[3]) )
          => /\ last'.op = "updateFilteringRule"
             /\ last'.status = "Rule not found"
             /\ UNCHANGED world ]_vars

\* An update has been refused on a ledger that holds rules, some of them
\* written at a block later than the first.
C18_Witness ==
    /\ last.op = "updateFilteringRule"
    /\ last.status = "Rule not found"
    /\ ruleCount > 0
    /\ ruleCount < MaxRules
    /\ lastUpdateTimestamp > 1

(***************************************************************************)
(* C19 - replay safety.  Delivering the accepted match callback once more  *)
(* (same requestId, same result, same valid proof), in the same block or a *)
(* later one, changes no PendingMatch, no cursor and nothing else in the   *)
(* contract.                                                               *)
(* Violated by the contract: the replay is accepted and sets the cursor of *)
(* its caller to the block.timestamp of the replay.                        *)
(***************************************************************************)
C19_ReplayChangesNothing ==
    [][ \A c \in Addr, cb \in SignedCallbacks("computation") :
          ( /\ MatchAccepted
            /\ cb.requestId = last.requestId
            /\ cb.result.shouldBlock = last.shouldBlock
            /\ performMatching(c, cb.requestId, cb.result, cb.proof) )
          => UNCHANGED storage ]_vars

(***************************************************************************)
(* C20 - retries leave the ledger alone.  No step of requestUrlMatching,   *)
(* performMatching, requestDecisionDecryption or decryptDecision, accepted *)
(* or rejected, first or repeated, changes ruleCount, a stored rule or     *)
(* lastUpdateTimestamp.                                                    *)
(***************************************************************************)
C20_ProtocolLeavesLedger ==
    [][ last'.op \in ProtocolOps => UNCHANGED ledger ]_vars

\* A decision has been disclosed for a client that repeated its match
\* request, over a ledger that holds a rule, after a rejected and an
\* accepted callback.
C20_Witness ==
    /\ last.op = "decryptDecision"
    /\ last.status = "ok"
    /\ ruleCount > 0
    /\ lastUpdateTimestamp > 0
    /\ \E a \in Addr :
         Cardinality({r \in Issued("computation") : requests[r].sender = a}) >= 2

C22_AddStoresNextRule ==
    [][ \A c \in Addr, in \in RuleInputs :
          addFilteringRule(c, in[1], in[2], in[3])
          => /\ ruleCount' = ruleCount + 1
             /\ filteringRules'[ruleCount + 1] =
                    EncryptedRule(in[1], in[2], in[3], now)
             /\ lastUpdateTimestamp' = now
             /\ \A j \in RuleIds \ {ruleCount + 1} :
                  filteringRules'[j] = filteringRules[j]
             /\ UNCHANGED <<matchResults, lastSyncTimestamps>> ]_vars

\* A rule has just been added after another one, while alice held a
\* Processed match and a cursor.
C22_Witness ==
    /\ last.op = "addFilteringRule"
    /\ ruleCount >= 2
    /\ filteringRules[ruleCount].timestamp = now
    /\ filteringRules[1].timestamp < now
    /\ matchResults["alice"].isProcessed
    /\ lastSyncTimestamps["alice"] > 0

(***************************************************************************)
(* C23 - the payload of a match request.  The ciphertexts handed to the    *)
(* backend by requestUrlMatching(dom, path) are 2 + 3 * ruleCount long,    *)
(* start with dom and path in that order, and continue with the domain     *)
(* pattern, path pattern and rule type of rule 1, rule 2, ... as stored    *)
(* when the request is made (positions are counted from 1 here, from 0 in  *)
(* the contract); and no later step alters a request already dispatched.   *)
(***************************************************************************)
C23_PayloadLayout ==
    [][ /\ \A c \in Addr, url \in UrlInputs :
             requestUrlMatching(c, url[1], url[2])
             => LET payload == requests'[Len(requests')].ciphertexts IN
                /\ Len(requests') = Len(requests) + 1
                /\ Len(payload) = 2 + 3 * ruleCount
                /\ payload[1] = url[1]
                /\ payload[2] = url[2]
                /\ \A i \in 1..ruleCount :
                     /\ payload[3 * i] = filteringRules[i].encryptedDomainPattern
                     /\ payload[3 * i + 1] = filteringRules[i].encryptedPathPattern
                     /\ payload[3 * i + 2] = filteringRules[i].encryptedRuleType
        /\ \A r \in 1..Len(requests) : requests'[r] = requests[r] ]_vars

\* A request was dispatched over a rule that has been updated since, and a
\* second request carries the rule as updated.
C23_Witness ==
    /\ Len(requests) >= 2
    /\ ruleCount >= 2
    /\ Len(requests[1].ciphertexts) = 5
    /\ Len(requests[2].ciphertexts) = 8
    /\ requests[1].ciphertexts[3] # filteringRules[1].encryptedDomainPattern
    /\ requests[2].ciphertexts[3] = filteringRules[1].encryptedDomainPattern

(***************************************************************************)
(* C24 - the poll agrees with the delta.  needsUpdate called by c returns  *)
(* true exactly when c's cursor is below lastUpdateTimestamp, and that is  *)
(* exactly when getRuleUpdates called by c returns a non-empty delta.      *)
(***************************************************************************)
C24_PollAgreesWithDelta ==
    \A c \in Addr :
        /\ needsUpdate(c) <=> (lastSyncTimestamps[c] < lastUpdateTimestamp)
        /\ needsUpdate(c) <=> ~DiffEmpty(c)

\* The cursor of alice equals the time of the last write of a ledger whose
\* rules carry different timestamps: nothing to fetch for her, while the
\* other address, which never synced, has all rules to fetch.
C24_Witness ==
    /\ ruleCount >= 2
    /\ filteringRules[1].timestamp < filteringRules[2].timestamp
    /\ lastSyncTimestamps["alice"] = lastUpdateTimestamp
    /\ ~needsUpdate("alice")
    /\ needsUpdate("relayer")
    /\ Len(getRuleUpdates("relayer").timestamps) = ruleCount

(***************************************************************************)
(* C25 - the ledger stamp.  lastUpdateTimestamp is the greatest timestamp  *)
(* of the stored rules, and 0 while no rule is stored; no rule carries a   *)
(* timestamp greater than lastUpdateTimestamp.                             *)
(***************************************************************************)
C25_StampIsNewestRule ==
    /\ lastUpdateTimestamp =
          Max({0} \cup {filteringRules[i].timestamp : i \in 1..ruleCount})
    /\ \A i \in RuleIds : filteringRules[i].timestamp <= lastUpdateTimestamp

\* Three rules, the first of them updated after the third was added.
C25_Witness ==
    /\ ruleCount = 3
    /\ filteringRules[2].timestamp < filteringRules[3].timestamp
    /\ filteringRules[3].timestamp < filteringRules[1].timestamp
    /\ lastUpdateTimestamp = filteringRules[1].timestamp

(***************************************************************************)
(* C26 - a late decryption result.  Whenever decryptDecision is accepted,  *)
(* the client the decryption was requested by holds a Processed match, and *)
(* the cleartext delivered is the decision of that match; in particular a  *)
(* result for a ticket taken before the client made a new                  *)
(* requestUrlMatching is not accepted.                                     *)
(* Violated by the contract: decryptDecision checks the signature only and *)
(* the contract keeps no ticket (see C16), so the late result is accepted  *)
(* while the client's match is Requested again.                            *)
(***************************************************************************)
C26_DecisionOfCurrentMatch ==
    (last.op = "decryptDecision" /\ last.status = "ok")
    => LET c == requests[last.requestId].sender IN
       /\ matchResults[c].isProcessed
       /\ Decrypt(matchResults[c].encryptedShouldBlock) = last.shouldBlock

(***************************************************************************)
(* C27 - no lost update of the rule index.  Once an addRule of a session   *)
(* has ended in success, the id it made is listed under "rule_keys" and    *)
(* loadRules returns its rule; in particular when the addRule of the other *)
(* session ran at the same time.                                           *)
(* Violated by the frontend: addRule reads "rule_keys", appends and writes *)
(* it back in separate calls, so of two interleaved addRule the later      *)
(* write drops the id the earlier one appended.                            *)
(***************************************************************************)
C27_NoLostIndexUpdate ==
    \A s \in Sessions :
        AddRuleSucceeded(s)
        => /\ sessions[s].ruleId \in IndexedIds
           /\ \E k \in 1..Len(LoadedRules) : LoadedRules[k].id = sessions[s].ruleId

(***************************************************************************)
(* C28 - integrity of the rule index.  Every id listed under "rule_keys"   *)
(* has a non-empty record under "rule_<id>", also after an addRule or a    *)
(* toggleRuleStatus has failed part-way; and toggleRuleStatus on an id     *)
(* whose record is empty ends with the error "Rule not found" and writes   *)
(* nothing.                                                                *)
(***************************************************************************)
C28_IndexIntegrity ==
    /\ [] \A id \in IndexedIds : Len(getData(RuleKey(id))) > 0
    /\ [][ \A s \in Sessions :
             ( /\ toggleRuleStatus_getRule(s)
               /\ Len(getData(RuleKey(sessions[s].ruleId))) = 0 )
             => /\ sessions'[s].pc = "idle"
                /\ sessions'[s].transactionStatus =
                       TransactionStatus("error", <<"Update failed: ", "Rule not found">>)
                /\ store' = store ]_vars

\* An addRule has failed after writing its record (the record is stored,
\* its id is not listed), another rule is listed, and a toggleRuleStatus
\* has ended with "Rule not found".
C28_Witness ==
    /\ RecordedIds \ IndexedIds # {}
    /\ IndexedIds # {}
    /\ \E s \in Sessions :
         sessions[s].transactionStatus =
             TransactionStatus("error", <<"Update failed: ", "Rule not found">>)

=============================================================================
